---- MODULE Spec2Model ----
(***************************************************************************)
(* iron-pipeline: a Pipeline is an ordered list of middleware; a request   *)
(* is dispatched by Pipeline::handle -> invoke_handler(0), and each        *)
(* middleware may answer or delegate through PipelineNext.  Fork is a      *)
(* middleware owning a sub pipeline, taken when its ForkHandler matches.   *)
(*                                                                         *)
(* Strings are sequences of one-character strings.  A Url is modelled by   *)
(* the list of segments that Url::path() returns for it.                   *)
(***************************************************************************)
EXTENDS Integers, Sequences, FiniteSets, TLC

\* ------------------------------------------------------------------ bounds
\* longest path specification handed to Fork::when_path
MaxSpecLen == 4
\* most segments in the path of an inbound request
MaxPathLen == 3
\* most middleware constructed in all, over every pipeline
MaxMiddleware == 3
\* longest path specification parsed in SpecParse
MaxParseLen == 5
\* most middleware constructed in SpecThreads
MaxThreadsMiddleware == 2

\* characters of path specifications and of request path segments
Chars == {"/", "a"}

\* characters of the path specifications parsed in SpecParse
ParseChars == {"/", "a", "b"}

\* the top-level pipeline (the one handed to Iron::new)
Root == 1

VARIABLES
    handlers,   \* handlers[p]: Pipeline.handlers of pipeline p
    building,   \* Fork::when / when_path calls whose pipeline_builder is running
    pathArg,    \* <<path>> while Fork::when_path(path, ..) is about to parse it
    phase,      \* "build", "serve", or "panicked" (when_path unwrapped an Err)
    parseErr,   \* the ParsePathError that when_path unwrapped, or "none"
    req,        \* the Request of the traversal in progress
    stack,      \* the invoke_handler calls in progress, innermost last
    pc,         \* "idle", "call" (top frame about to run), "ret", "done"
    ret,        \* the IronResult being returned to the top frame
    final,      \* the IronResult Pipeline::handle returned to its caller
    trace,      \* history: what each middleware saw and returned, in order
    other       \* req .. trace of a second traversal, on another thread

vars == <<handlers, building, pathArg, phase, parseErr, req, stack, pc, ret,
          final, trace, other>>

\* ----------------------------------------------------------------- strings
\* all strings over Chars of length at most n
StringsUpTo(n) == UNION {[1..k -> Chars] : k \in 0..n}

\* str::starts_with("/")
StartsWithSlash(s) == Len(s) > 0 /\ s[1] = "/"

\* str::trim_left_matches("/"): drop every leading '/'
RECURSIVE TrimLeftSlashes(_)
TrimLeftSlashes(s) ==
    IF StartsWithSlash(s) THEN TrimLeftSlashes(Tail(s)) ELSE s

\* str::split("/"): the pieces between separators, empty pieces included
RECURSIVE Split(_)
Split(s) ==
    IF \E i \in 1..Len(s) : s[i] = "/"
    THEN LET i == CHOOSE k \in 1..Len(s) :
                      s[k] = "/" /\ \A j \in 1..(k - 1) : s[j] # "/"
         IN  <<SubSeq(s, 1, i - 1)>> \o Split(SubSeq(s, i + 1, Len(s)))
    ELSE <<s>>

\* Iterator::filter(|s| s.len() > 0)
RECURSIVE NonEmpty(_)
NonEmpty(ss) ==
    IF ss = <<>> THEN <<>>
    ELSE IF Len(Head(ss)) > 0 THEN <<Head(ss)>> \o NonEmpty(Tail(ss))
    ELSE NonEmpty(Tail(ss))

\* [&str]::join("/")
RECURSIVE Join(_)
Join(ss) ==
    IF ss = <<>> THEN <<>>
    ELSE IF Len(ss) = 1 THEN Head(ss)
    ELSE Head(ss) \o <<"/">> \o Join(Tail(ss))

\* --------------------------------------------------------------- parse_path
ParseOk(segments) == [ok |-> TRUE, segments |-> segments, err |-> "none"]
ParseErr(e) == [ok |-> FALSE, segments |-> <<>>, err |-> e]

ParsePathNoEmptyCheck(path) ==
    IF ~StartsWithSlash(path) THEN ParseErr("NoLeadingSlash")
    ELSE ParseOk(NonEmpty(Split(TrimLeftSlashes(path))))

\* parse_path without its filter: empty pieces are kept as segments
ParsePathUnfiltered(path) ==
    IF ~StartsWithSlash(path) THEN ParseErr("NoLeadingSlash")
    ELSE LET segments == Split(TrimLeftSlashes(path))
         IN  IF NonEmpty(segments) = <<>> THEN ParseErr("PathEmpty")
             ELSE ParseOk(segments)

ParsePath(path) ==
    IF ~StartsWithSlash(path) THEN ParseErr("NoLeadingSlash")
    ELSE LET segments == NonEmpty(Split(TrimLeftSlashes(path)))
         IN  IF Len(segments) = 0 THEN ParseErr("PathEmpty")
             ELSE ParseOk(segments)

\* -------------------------------------------------------------- middleware
\* Handle(|_| Ok(Response::with(status))): answers, never touches `next`
Handle(status) ==
    [kind |-> "Handle", status |-> status, wrap |-> FALSE,
     handler |-> "none", segments |-> <<>>, sub |-> 0]

\* HandleNext(|req, next| ..): wrap = FALSE returns next.process(req) as is,
\* wrap = TRUE unwraps it and overwrites the status
HandleNext(wrap) ==
    [kind |-> "HandleNext", status |-> "none", wrap |-> wrap,
     handler |-> "none", segments |-> <<>>, sub |-> 0]

\* Fork(sub_pipeline, handler)
Fork(sub, handler, segments) ==
    [kind |-> "Fork", status |-> "none", wrap |-> FALSE,
     handler |-> handler, segments |-> segments, sub |-> sub]

\* the statuses the Handle closures answer with
Statuses == {"Ok", "InternalServerError"}

SimpleMiddleware ==
    {Handle(s) : s \in Statuses} \cup {HandleNext(w) : w \in BOOLEAN}

\* ----------------------------------------------------------------- results
NoResult == [tag |-> "None", status |-> "none", error |-> "none"]
OkResult(status) == [tag |-> "Ok", status |-> status, error |-> "none"]
\* a panic unwinding through the callers
Panic == [tag |-> "Panic", status |-> "none", error |-> "unwrap"]

\* Err(IronError::new(Error::NoHandler, status::InternalServerError))
NoHandlerWithOkStatus ==
    [tag |-> "Err", status |-> "Ok", error |-> "NoHandler"]

NoHandler ==
    [tag |-> "Err", status |-> "InternalServerError", error |-> "NoHandler"]

\* ---------------------------------------------------------------- requests
Methods == {"Head", "Get"}
\* the segments a request path is made of ("" is the segment of "/" and "//")
ReqSegments == {<<>>, <<"a">>}
\* Url::path() of an http url always has at least one segment
ReqPaths == UNION {[1..k -> ReqSegments] : k \in 1..MaxPathLen}
Requests == [method : Methods, path : ReqPaths, original : {<<>>}]
NoRequest == [method |-> "none", path |-> <<>>, original |-> <<>>]

\* --------------------------------------------------------------- Url paths
\* Url::set_path on an http url: one leading '/' of the argument is taken as
\* the path's own leading separator, which is added when missing
SetPath(path) ==
    <<"/">> \o (IF StartsWithSlash(path) THEN Tail(path) ELSE path)

\* Url::path(): the pieces of the url's path after its leading '/'
UrlPath(urlPath) == Split(Tail(urlPath))

\* &slice[n..]
Skip(s, n) == SubSeq(s, n + 1, Len(s))

\* ------------------------------------------------------------- ForkHandler
\* the earlier revision of slice_starts_with: no length test
SliceStartsWithNoLengthTest(input, prefix) ==
    \A i \in 1..(IF Len(input) < Len(prefix) THEN Len(input) ELSE Len(prefix)) :
        input[i] = prefix[i]

\* slice_starts_with: zip stops at the shorter of the two
SliceStartsWith(input, prefix) ==
    IF Len(prefix) > Len(input) THEN FALSE
    ELSE \A i \in 1..(IF Len(input) < Len(prefix) THEN Len(input)
                      ELSE Len(prefix)) :
             input[i] = prefix[i]

\* a should_fork that tests the url the request first came with
ShouldForkOnOriginal(h, r) ==
    IF h.handler = "ForkOnPath"
    THEN SliceStartsWith(IF r.original # <<>> THEN r.original[1] ELSE r.path,
                         h.segments)
    ELSE r.method = "Head"

\* ForkHandler::should_fork; the ForkOnFn predicate is the tests'
\* |req| req.method == Method::Head
ShouldFork(h, r) ==
    IF h.handler = "ForkOnPath" THEN SliceStartsWith(r.path, h.segments)
    ELSE r.method = "Head"

\* or_insert replaced by insert: the inner fork overwrites the slot
ModifyRequestOverwrite(h, r) ==
    IF h.handler = "ForkOnPath"
    THEN [r EXCEPT !.original = <<r.path>>,
                   !.path = UrlPath(SetPath(Join(Skip(r.path, Len(h.segments)))))]
    ELSE r

\* the rewriting of ForkOnPath as the trait's default body
ModifyRequestByDefault(h, r) ==
    [r EXCEPT !.original = IF r.original = <<>> THEN <<r.path>>
                           ELSE r.original,
              !.path = UrlPath(SetPath(Join(Skip(r.path, Len(h.segments)))))]

\* a ForkOnPath that leaves the request as it is
ModifyRequestNop(h, r) == r

\* ForkHandler::modify_request: a nop but for ForkOnPath
ModifyRequest(h, r) ==
    IF h.handler = "ForkOnPath"
    THEN [r EXCEPT !.original = IF r.original = <<>> THEN <<r.path>>
                                ELSE r.original,
                   !.path = UrlPath(SetPath(Join(Skip(r.path, Len(h.segments)))))]
    ELSE r

\* ------------------------------------------------------------ construction
\* a thread that is not handling a request
NoTraversal ==
    [req |-> NoRequest, stack |-> <<>>, pc |-> "idle", ret |-> NoResult,
     final |-> NoResult, trace |-> <<>>]

Init ==
    /\ handlers = <<<<>>>>          \* let mut pipeline = Pipeline::new()
    /\ building = <<>>
    /\ pathArg = <<>>
    /\ phase = "build"
    /\ parseErr = "none"
    /\ req = NoRequest
    /\ stack = <<>>
    /\ pc = "idle"
    /\ ret = NoResult
    /\ final = NoResult
    /\ trace = <<>>
    /\ other = NoTraversal

\* a builder whose adds land in the top-level pipeline
TargetTopLevel == Root

\* the pipeline that `add` is called on: the innermost builder's, or the root
Target == IF building = <<>> THEN Root ELSE building[Len(building)].pipeline

\* the middleware constructed so far: those added, and the Forks whose
\* builder is running
RECURSIVE Added(_)
Added(n) == IF n = 0 THEN 0 ELSE Len(handlers[n]) + Added(n - 1)
Constructed == Added(Len(handlers)) + Len(building)

CanAdd ==
    /\ phase = "build"
    /\ pathArg = <<>>
    /\ Constructed < MaxMiddleware

\* Vec::insert(0, ..): the new middleware goes in front
PushFront(pipeline, m) ==
    [handlers EXCEPT ![pipeline] = <<m>> \o handlers[pipeline]]

\* Vec::push
Push(pipeline, m) ==
    [handlers EXCEPT ![pipeline] = Append(handlers[pipeline], m)]

dispatchVars == <<req, stack, pc, ret, final, trace, other>>

\* Pipeline::add of a Handle or a HandleNext
Add(m) ==
    /\ CanAdd
    /\ handlers' = Push(Target, m)
    /\ UNCHANGED <<building, pathArg, phase, parseErr, dispatchVars>>

\* Fork::when(predicate, pipeline_builder) up to the call of the builder
ForkWhen ==
    /\ CanAdd
    /\ handlers' = Append(handlers, <<>>)        \* Pipeline::new()
    /\ building' = Append(building,
           [pipeline |-> Len(handlers) + 1, handler |-> "ForkOnFn",
            segments |-> <<>>])
    /\ UNCHANGED <<pathArg, phase, parseErr, dispatchVars>>

\* Fork::when_path(path, pipeline_builder) is called
WhenPathCall(path) ==
    /\ CanAdd
    /\ pathArg' = <<path>>
    /\ UNCHANGED <<handlers, building, phase, parseErr, dispatchVars>>

\* a when_path that runs the builder first and parses afterwards: the sub
\* pipeline exists and the builder has added to it when the unwrap panics
WhenPathPanicAfterBuilder ==
    /\ phase = "build"
    /\ pathArg # <<>>
    /\ ~ParsePath(pathArg[1]).ok
    /\ handlers' = Append(handlers, <<Handle("Ok")>>)
    /\ phase' = "panicked"
    /\ parseErr' = ParsePath(pathArg[1]).err
    /\ UNCHANGED <<building, pathArg, dispatchVars>>

\* parse_path(path).unwrap() panics: no Fork, the builder never runs
WhenPathPanic ==
    /\ phase = "build"
    /\ pathArg # <<>>
    /\ ~ParsePath(pathArg[1]).ok
    /\ phase' = "panicked"
    /\ parseErr' = ParsePath(pathArg[1]).err
    /\ UNCHANGED <<handlers, building, pathArg, dispatchVars>>

\* parse_path(path).unwrap() yields the segments; the builder is called
WhenPathBuild ==
    /\ phase = "build"
    /\ pathArg # <<>>
    /\ ParsePath(pathArg[1]).ok
    /\ handlers' = Append(handlers, <<>>)        \* Pipeline::new()
    /\ building' = Append(building,
           [pipeline |-> Len(handlers) + 1, handler |-> "ForkOnPath",
            segments |-> ParsePath(pathArg[1]).segments])
    /\ pathArg' = <<>>
    /\ UNCHANGED <<phase, parseErr, dispatchVars>>

\* the pipeline_builder returns, Fork(sub_pipeline, handler) is the value of
\* the constructor and the enclosing pipeline.add(..) pushes it
AddFork ==
    /\ phase = "build"
    /\ pathArg = <<>>
    /\ building # <<>>
    /\ LET b == building[Len(building)]
           outer == IF Len(building) = 1 THEN Root
                    ELSE building[Len(building) - 1].pipeline
       IN  handlers' = Push(outer, Fork(b.pipeline, b.handler, b.segments))
    /\ building' = SubSeq(building, 1, Len(building) - 1)
    /\ UNCHANGED <<pathArg, phase, parseErr, dispatchVars>>

\* ----------------------------------------------------------------- dispatch
\* the index Pipeline::handle starts at
HandleIndex == 0

\* PipelineNext(self, index + 1), a skipping variant first
NextIndexSkipping(index) == index + 2

\* PipelineNext(self, index): the continuation re-enters its own middleware
NextIndexSame(index) == index

NextIndex(index) == index + 1

\* self.handlers.get(index), as an Option: <<>> or <<handler>>
GetHandler(pipeline, index) ==
    IF index < Len(handlers[pipeline]) THEN <<handlers[pipeline][index + 1]>>
    ELSE <<>>

\* invoke_handler without its `return`: falls through to the NoHandler error
InvokeHandlerResultDropped(res) == NoHandler

\* return handler.process(req, PipelineNext(self, index + 1)): as it is
InvokeHandlerResult(res) == res

\* (self.0)(req) of a Handle: the tests' closures answer with a status
HandleResult(h) == OkResult(h.status)

Frame(pipeline, index) ==
    [pipeline |-> pipeline, index |-> index, branch |-> "none"]

Top == stack[Len(stack)]
Pop == SubSeq(stack, 1, Len(stack) - 1)
\* the top frame's middleware calls invoke_handler(index) of `pipeline`
Call(branch, pipeline, index) ==
    Append([stack EXCEPT ![Len(stack)].branch = branch], Frame(pipeline, index))

Event(ev, f, r, res) ==
    [ev |-> ev, pipeline |-> f.pipeline, index |-> f.index, req |-> r,
     res |-> res]

\* Handler for Pipeline: handle(req) = self.invoke_handler(0, req)
HandleRequest(r) ==
    /\ phase \in {"build", "serve"}
    /\ building = <<>>
    /\ pathArg = <<>>
    /\ pc = "idle"
    /\ phase' = "serve"
    /\ req' = r
    /\ stack' = <<Frame(Root, HandleIndex)>>
    /\ pc' = "call"
    /\ UNCHANGED <<other, handlers, building, pathArg, parseErr, ret, final, trace>>

\* invoke_handler: no handler at index
InvokeNoHandler ==
    /\ pc = "call"
    /\ GetHandler(Top.pipeline, Top.index) = <<>>
    /\ stack' = Pop
    /\ ret' = NoHandler
    /\ pc' = "ret"
    /\ trace' = Append(trace, Event("nohandler", Top, req, NoHandler))
    /\ UNCHANGED <<other, handlers, building, pathArg, phase, parseErr, req, final>>

\* invoke_handler: the handler at index is a Handle, which answers
InvokeHandle ==
    /\ pc = "call"
    /\ GetHandler(Top.pipeline, Top.index) # <<>>
    /\ LET h == GetHandler(Top.pipeline, Top.index)[1]
       IN  /\ h.kind = "Handle"
           /\ ret' = InvokeHandlerResult(HandleResult(h))
           /\ trace' = trace \o <<Event("enter", Top, req, NoResult),
                                  Event("exit", Top, req, HandleResult(h))>>
    /\ stack' = Pop
    /\ pc' = "ret"
    /\ UNCHANGED <<other, handlers, building, pathArg, phase, parseErr, req, final>>

\* invoke_handler: the handler at index is a HandleNext, which calls
\* next.process(req)
InvokeHandleNext ==
    /\ pc = "call"
    /\ GetHandler(Top.pipeline, Top.index) # <<>>
    /\ GetHandler(Top.pipeline, Top.index)[1].kind = "HandleNext"
    /\ stack' = Call("next", Top.pipeline, NextIndex(Top.index))
    /\ trace' = Append(trace, Event("enter", Top, req, NoResult))
    /\ UNCHANGED <<other, handlers, building, pathArg, phase, parseErr, req, pc, ret,
                   final>>

\* a Fork that goes on with the outer pipeline whatever the handler says
ForkCallFallsThrough(h, matched, next) ==
    [pipeline |-> next.pipeline, index |-> next.index, branch |-> "next"]

\* the branches exchanged
ForkCallInverted(h, matched, next) ==
    IF ~matched
    THEN [pipeline |-> h.sub, index |-> HandleIndex, branch |-> "sub"]
    ELSE [pipeline |-> next.pipeline, index |-> next.index, branch |-> "next"]

\* what Fork::process calls: the sub pipeline from its start when the
\* handler matched, the outer continuation otherwise
ForkCall(h, matched, next) ==
    IF matched
    THEN [pipeline |-> h.sub, index |-> HandleIndex, branch |-> "sub"]
    ELSE [pipeline |-> next.pipeline, index |-> next.index, branch |-> "next"]

\* invoke_handler: the handler at index is a Fork
InvokeFork ==
    /\ pc = "call"
    /\ GetHandler(Top.pipeline, Top.index) # <<>>
    /\ LET h == GetHandler(Top.pipeline, Top.index)[1]
           matched == ShouldFork(h, req)
           r == IF matched THEN ModifyRequest(h, req) ELSE req
           c == ForkCall(h, matched, Frame(Top.pipeline, NextIndex(Top.index)))
       IN  /\ h.kind = "Fork"
           /\ req' = r
           /\ stack' = Call(c.branch, c.pipeline, c.index)
           /\ trace' = trace \o
                  <<Event("enter", Top, req, NoResult),
                    Event(IF matched THEN "match" ELSE "nomatch", Top, r,
                          NoResult)>>
    /\ UNCHANGED <<other, handlers, building, pathArg, phase, parseErr, pc, ret, final>>

\* a HandleNext closure that returns the delegated result as it got it
HandleNextResultVerbatim(wrap, res) == res

\* what a HandleNext closure returns once next.process(req) returned res:
\* res itself, or (wrap) res.unwrap() with the status overwritten
HandleNextResult(wrap, res) ==
    IF ~wrap \/ res.tag = "Panic" THEN res
    ELSE IF res.tag = "Ok" THEN OkResult("InternalServerError")
    ELSE Panic

\* the callee returned to the middleware of the top frame, which returns
Return ==
    /\ pc = "ret"
    /\ stack # <<>>
    /\ LET h == GetHandler(Top.pipeline, Top.index)[1]
           res == IF h.kind = "HandleNext" THEN HandleNextResult(h.wrap, ret)
                  ELSE ret
       IN  /\ ret' = InvokeHandlerResult(res)
           /\ trace' = Append(trace, Event("exit", Top, req, res))
    /\ stack' = Pop
    /\ UNCHANGED <<other, handlers, building, pathArg, phase, parseErr, req, pc, final>>

\* Pipeline::handle returns to the host
Finish ==
    /\ pc = "ret"
    /\ stack = <<>>
    /\ final' = ret
    /\ pc' = "done"
    /\ UNCHANGED <<other, handlers, building, pathArg, phase, parseErr, req, stack,
                   ret, trace>>

\* the host takes the response; the pipeline waits for the next request
Respond ==
    /\ pc = "done"
    /\ pc' = "idle"
    /\ req' = NoRequest
    /\ ret' = NoResult
    /\ final' = NoResult
    /\ trace' = <<>>
    /\ UNCHANGED <<other, handlers, building, pathArg, phase, parseErr, stack>>

Next ==
    \/ \E m \in SimpleMiddleware : Add(m)
    \/ ForkWhen
    \/ \E path \in StringsUpTo(MaxSpecLen) : WhenPathCall(path)
    \/ WhenPathPanic
    \/ WhenPathBuild
    \/ AddFork
    \/ \E r \in Requests : HandleRequest(r)
    \/ InvokeNoHandler
    \/ InvokeHandle
    \/ InvokeHandleNext
    \/ InvokeFork
    \/ Return
    \/ Finish
    \/ Respond

Spec == Init /\ [][Next]_vars

\* a call in progress runs on: every middleware body and predicate of the
\* model terminates, and the code between two calls is straight-line
Step ==
    \/ InvokeNoHandler
    \/ InvokeHandle
    \/ InvokeHandleNext
    \/ InvokeFork
    \/ Return
    \/ Finish

FairSpec == Spec /\ WF_vars(Step)

\* --------------------------------------------------- parse_path on its own
\* Fork::when_path(path, ..) is the first thing the program does, with any
\* path over ParseChars
InitParse ==
    /\ handlers = <<<<>>>>
    /\ building = <<>>
    /\ pathArg \in {<<path>> :
                       path \in UNION {[1..k -> ParseChars] : k \in 0..MaxParseLen}}
    /\ phase = "build"
    /\ parseErr = "none"
    /\ req = NoRequest
    /\ stack = <<>>
    /\ pc = "idle"
    /\ ret = NoResult
    /\ final = NoResult
    /\ trace = <<>>
    /\ other = NoTraversal

NextParse ==
    \/ WhenPathPanic
    \/ WhenPathBuild

SpecParse == InitParse /\ [][NextParse]_vars

\* ------------------------------------- Handlers as middleware (blanket impl)
\* a Handler answering with a status, added to a pipeline as it is
\* (ApiV1Handler): process(req, _) = self.handle(req)
HandlerUnit(status) ==
    [kind |-> "Handler", status |-> status, wrap |-> FALSE,
     handler |-> "none", segments |-> <<>>, sub |-> 0]

\* a Pipeline, itself a Handler, added to another pipeline
PipelineUnit(sub) ==
    [kind |-> "Pipeline", status |-> "none", wrap |-> FALSE,
     handler |-> "none", segments |-> <<>>, sub |-> sub]

HandlerUnits == {HandlerUnit(s) : s \in Statuses}

\* the requests dispatched in SpecHandler: one path segment
HandlerRequests == {r \in Requests : Len(r.path) = 1}

\* let mut inner = Pipeline::new(): the adds that follow are made to inner
NewPipeline ==
    /\ CanAdd
    /\ handlers' = Append(handlers, <<>>)
    /\ building' = Append(building,
           [pipeline |-> Len(handlers) + 1, handler |-> "Pipeline",
            segments |-> <<>>])
    /\ UNCHANGED <<pathArg, phase, parseErr, dispatchVars>>

\* outer.add(inner)
AddPipeline ==
    /\ phase = "build"
    /\ pathArg = <<>>
    /\ building # <<>>
    /\ building[Len(building)].handler = "Pipeline"
    /\ LET b == building[Len(building)]
           outer == IF Len(building) = 1 THEN Root
                    ELSE building[Len(building) - 1].pipeline
       IN  handlers' = Push(outer, PipelineUnit(b.pipeline))
    /\ building' = SubSeq(building, 1, Len(building) - 1)
    /\ UNCHANGED <<pathArg, phase, parseErr, dispatchVars>>

\* self.handle(req) of a Handler that answers with a status
HandlerUnitResult(h) == OkResult(h.status)

\* invoke_handler: the handler at index is a Handler; the blanket impl calls
\* its handle and drops the continuation
InvokeHandlerUnit ==
    /\ pc = "call"
    /\ GetHandler(Top.pipeline, Top.index) # <<>>
    /\ LET h == GetHandler(Top.pipeline, Top.index)[1]
       IN  /\ h.kind = "Handler"
           /\ ret' = InvokeHandlerResult(HandlerUnitResult(h))
           /\ trace' = trace \o <<Event("enter", Top, req, NoResult),
                                  Event("exit", Top, req, HandlerUnitResult(h))>>
    /\ stack' = Pop
    /\ pc' = "ret"
    /\ UNCHANGED <<other, handlers, building, pathArg, phase, parseErr, req, final>>

\* a blanket impl that hands the request to the continuation instead
PipelineCallDelegates(h, next) ==
    [pipeline |-> next.pipeline, index |-> next.index, branch |-> "next"]

\* what the blanket impl calls for a Pipeline: its handle, which starts the
\* inner pipeline at HandleIndex; `next` is dropped
PipelineCall(h, next) ==
    [pipeline |-> h.sub, index |-> HandleIndex, branch |-> "sub"]

\* invoke_handler: the handler at index is a Pipeline
InvokePipeline ==
    /\ pc = "call"
    /\ GetHandler(Top.pipeline, Top.index) # <<>>
    /\ LET h == GetHandler(Top.pipeline, Top.index)[1]
           c == PipelineCall(h, Frame(Top.pipeline, NextIndex(Top.index)))
       IN  /\ h.kind = "Pipeline"
           /\ stack' = Call(c.branch, c.pipeline, c.index)
    /\ trace' = Append(trace, Event("enter", Top, req, NoResult))
    /\ UNCHANGED <<other, handlers, building, pathArg, phase, parseErr, req, pc, ret,
                   final>>

NextHandler ==
    \/ \E m \in SimpleMiddleware \cup HandlerUnits : Add(m)
    \/ NewPipeline
    \/ AddPipeline
    \/ \E r \in HandlerRequests : HandleRequest(r)
    \/ InvokeNoHandler
    \/ InvokeHandle
    \/ InvokeHandleNext
    \/ InvokeHandlerUnit
    \/ InvokePipeline
    \/ Return
    \/ Finish
    \/ Respond

SpecHandler == Init /\ [][NextHandler]_vars

\* ------------------------------------------------ two traversals at a time
\* Iron calls Pipeline::handle(&self, ..) from several threads.  The model
\* runs the traversal held in req .. trace; Switch parks it in `other` and
\* goes on with the one parked there.
Traversal ==
    [req |-> req, stack |-> stack, pc |-> pc, ret |-> ret, final |-> final,
     trace |-> trace]

\* a pipeline that keeps the index of the call in progress in a field of its
\* own: the resumed traversal finds the index the other one left there
ResumedSharedIndex(saved, running) ==
    IF saved.stack # <<>> /\ running.stack # <<>>
    THEN [saved EXCEPT !.stack[Len(saved.stack)].index =
                            running.stack[Len(running.stack)].index]
    ELSE saved

\* what a traversal goes on with when its thread runs again: the index and
\* the request are arguments of its own invoke_handler calls
Resumed(saved, running) == saved

Switch ==
    /\ phase = "serve"
    /\ LET t == Resumed(other, Traversal)
       IN  /\ req' = t.req
           /\ stack' = t.stack
           /\ pc' = t.pc
           /\ ret' = t.ret
           /\ final' = t.final
           /\ trace' = t.trace
    /\ other' = Traversal
    /\ UNCHANGED <<handlers, building, pathArg, phase, parseErr>>

\* invoke_handler(index, req) of `pipeline` run to its return with nothing
\* else going on: the middleware entered, in order, and the result
RECURSIVE Alone(_, _, _)
Alone(pipeline, index, r) ==
    IF GetHandler(pipeline, index) = <<>>
    THEN [entered |-> <<>>, res |-> InvokeHandlerResult(NoHandler)]
    ELSE LET h == GetHandler(pipeline, index)[1]
             here == <<<<pipeline, index>>>>
             next == Frame(pipeline, NextIndex(index))
         IN  IF h.kind = "Handle"
             THEN [entered |-> here, res |-> InvokeHandlerResult(HandleResult(h))]
             ELSE IF h.kind = "HandleNext"
             THEN LET d == Alone(next.pipeline, next.index, r)
                  IN  [entered |-> here \o d.entered,
                       res |-> InvokeHandlerResult(HandleNextResult(h.wrap, d.res))]
             ELSE LET matched == ShouldFork(h, r)
                      c == ForkCall(h, matched, next)
                      d == Alone(c.pipeline, c.index,
                                 IF matched THEN ModifyRequest(h, r) ELSE r)
                  IN  [entered |-> here \o d.entered,
                       res |-> InvokeHandlerResult(d.res)]

ThreadsCanAdd == Constructed < MaxThreadsMiddleware

NextThreads ==
    \/ \E m \in SimpleMiddleware : ThreadsCanAdd /\ Add(m)
    \/ ThreadsCanAdd /\ ForkWhen
    \/ ThreadsCanAdd /\ WhenPathCall(<<"/", "a">>)
    \/ WhenPathBuild
    \/ AddFork
    \/ \E r \in HandlerRequests : HandleRequest(r)
    \/ InvokeNoHandler
    \/ InvokeHandle
    \/ InvokeHandleNext
    \/ InvokeFork
    \/ Return
    \/ Finish
    \/ Respond
    \/ Switch

SpecThreads == Init /\ [][NextThreads]_vars

\* ------------------------------------ the revision src/src/middleware.rs
\* url::parse_path on a path specification: one leading '/' is taken off and
\* the rest is split at every '/', empty pieces kept
OldParsePath(path) == Split(Tail(path))

\* the specifications when_path is called with: "/api/v2" and the like
OldPathSpecs == {path \in StringsUpTo(MaxSpecLen) : StartsWithSlash(path)}

\* slice_starts_with: input.iter().zip(prefix).all(|(a, b)| a == b); zip
\* stops at the shorter of the two
OldSliceStartsWith(input, prefix) ==
    \A i \in 1..(IF Len(input) < Len(prefix) THEN Len(input) ELSE Len(prefix)) :
        input[i] = prefix[i]

\* Fork::when_path(path, pipeline_builder) up to the call of the builder
OldWhenPath(path) ==
    /\ CanAdd
    /\ handlers' = Append(handlers, <<>>)        \* Pipeline::new()
    /\ building' = Append(building,
           [pipeline |-> Len(handlers) + 1, handler |-> "ForkOnPath",
            segments |-> OldParsePath(path)])
    /\ UNCHANGED <<pathArg, phase, parseErr, dispatchVars>>

\* invoke_handler: the handler at index is a Fork; neither process of this
\* revision touches the request
OldInvokeFork ==
    /\ pc = "call"
    /\ GetHandler(Top.pipeline, Top.index) # <<>>
    /\ LET h == GetHandler(Top.pipeline, Top.index)[1]
           matched == IF h.handler = "ForkOnPath"
                      THEN OldSliceStartsWith(req.path, h.segments)
                      ELSE req.method = "Head"
           c == ForkCall(h, matched, Frame(Top.pipeline, NextIndex(Top.index)))
       IN  /\ h.kind = "Fork"
           /\ stack' = Call(c.branch, c.pipeline, c.index)
           /\ trace' = trace \o
                  <<Event("enter", Top, req, NoResult),
                    Event(IF matched THEN "match" ELSE "nomatch", Top, req,
                          NoResult)>>
    /\ UNCHANGED <<other, handlers, building, pathArg, phase, parseErr, req,
                   pc, ret, final>>

NextOld ==
    \/ \E m \in SimpleMiddleware : Add(m)
    \/ ForkWhen
    \/ \E path \in OldPathSpecs : OldWhenPath(path)
    \/ AddFork
    \/ \E r \in HandlerRequests : HandleRequest(r)
    \/ InvokeNoHandler
    \/ InvokeHandle
    \/ InvokeHandleNext
    \/ OldInvokeFork
    \/ Return
    \/ Finish
    \/ Respond

SpecOld == Init /\ [][NextOld]_vars

\* ------------------------------------------- a middleware that retries
\* HandleNext(|req, next| { let _ = next.process(req); next.process(req) }):
\* PipelineNext::process takes &self, so the closure may call it again
Retry ==
    [kind |-> "Retry", status |-> "none", wrap |-> FALSE,
     handler |-> "none", segments |-> <<>>, sub |-> 0]

\* the requests dispatched in SpecRetry: at most two path segments
RetryRequests == {r \in Requests : Len(r.path) <= 2}

\* invoke_handler: the handler at index is a Retry, which makes its first
\* call of next.process(req)
InvokeRetry ==
    /\ pc = "call"
    /\ GetHandler(Top.pipeline, Top.index) # <<>>
    /\ GetHandler(Top.pipeline, Top.index)[1].kind = "Retry"
    /\ stack' = Call("next", Top.pipeline, NextIndex(Top.index))
    /\ trace' = Append(trace, Event("enter", Top, req, NoResult))
    /\ UNCHANGED <<other, handlers, building, pathArg, phase, parseErr, req,
                   pc, ret, final>>

\* the first call of a Retry returned to it (a panic unwinds through it)
RetryPending ==
    /\ pc = "ret"
    /\ stack # <<>>
    /\ GetHandler(Top.pipeline, Top.index)[1].kind = "Retry"
    /\ Top.branch = "next"
    /\ ret.tag # "Panic"

\* a continuation that moved on when it was invoked
ReinvokedIndexAdvanced(index) == index + 1

\* PipelineNext::process: let PipelineNext(pipeline, idx) = *self; the index
\* is copied out of the continuation, which stays as it was
ReinvokedIndex(index) == index

\* the Retry drops the first result and calls next.process(req) again, with
\* the same continuation and the same &mut Request
RetryCall ==
    /\ RetryPending
    /\ stack' = Call("retry", Top.pipeline, ReinvokedIndex(NextIndex(Top.index)))
    /\ pc' = "call"
    /\ ret' = NoResult
    /\ trace' = Append(trace, Event("retry", Top, req, ret))
    /\ UNCHANGED <<other, handlers, building, pathArg, phase, parseErr, req,
                   final>>

NextRetry ==
    \/ \E m \in SimpleMiddleware \cup {Retry} : Add(m)
    \/ ForkWhen
    \/ WhenPathCall(<<"/", "a">>)
    \/ WhenPathBuild
    \/ AddFork
    \/ \E r \in RetryRequests : HandleRequest(r)
    \/ InvokeNoHandler
    \/ InvokeHandle
    \/ InvokeHandleNext
    \/ InvokeRetry
    \/ InvokeFork
    \/ RetryCall
    \/ ~RetryPending /\ Return
    \/ Finish
    \/ Respond

SpecRetry == Init /\ [][NextRetry]_vars

\* ------------------------------------------------------------------ claims
\* the middleware an event of the trace is about
HandlerOf(e) == handlers[e.pipeline][e.index + 1]
\* the events that record invoke_handler(index) being entered
IsInvoke(e) == e.ev \in {"enter", "nohandler"}
At(e, pipeline, index) == e.pipeline = pipeline /\ e.index = index
Delegates(m) == m = HandleNext(FALSE)
\* the request as Pipeline::handle received it
Inbound == IF trace = <<>> THEN req ELSE trace[1].req
\* for request r the middleware returns what its continuation returns
DelegatesFor(m, r) ==
    Delegates(m) \/ (m.kind = "Fork" /\ ~ShouldFork(m, r))

\* C1: Pipeline::handle enters index 0 first, and a next.process(req) made
\* by the middleware at index i enters exactly index i + 1 of the same
\* pipeline: nothing is skipped and nothing is entered out of order.
C1_ForwardOrder ==
    /\ stack # <<>> => At(stack[1], Root, 0)
    /\ \A j \in 1..(Len(stack) - 1) :
           stack[j].branch = "next" =>
               At(stack[j + 1], stack[j].pipeline, stack[j].index + 1)
    /\ \A k \in 1..Len(trace) :
           IsInvoke(trace[k]) =>
               IF k = 1 THEN At(trace[k], Root, 0)
               ELSE IF trace[k - 1].ev = "match"
               THEN At(trace[k], HandlerOf(trace[k - 1]).sub, 0)
               ELSE /\ trace[k - 1].ev \in {"enter", "nomatch"}
                    /\ At(trace[k], trace[k - 1].pipeline,
                          trace[k - 1].index + 1)

\* a traversal that entered each of three middleware, in the order added
C1_Witness ==
    /\ pc = "done"
    /\ Len(handlers[Root]) = 3
    /\ \A i \in 0..2 :
           \E k \in 1..Len(trace) :
               /\ trace[k].ev = "enter" /\ At(trace[k], Root, i)
               /\ \A j \in 1..(k - 1) :
                      trace[j].pipeline = Root => trace[j].index <= i

\* C2: an empty pipeline, or one whose every middleware returns
\* next.process(req), answers every request with Err(NoHandler) carrying
\* status InternalServerError.
C2_NoHandler ==
    (pc = "done" /\ \A i \in 1..Len(handlers[Root]) :
                        Delegates(handlers[Root][i]))
        => /\ final.tag = "Err"
           /\ final.error = "NoHandler"
           /\ final.status = "InternalServerError"

C2_Witness ==
    /\ pc = "done"
    /\ handlers[Root] = <<HandleNext(FALSE), HandleNext(FALSE)>>
    /\ final.error = "NoHandler"

\* C3: with a Handle at position k and only delegating middleware before it
\* (a HandleNext returning next.process(req), a Fork that does not match),
\* the traversal returns what the Handle at k produced and nothing after k
\* is ever entered.
C3_FirstTerminalWins ==
    \A k \in 1..Len(handlers[Root]) :
        (/\ pc # "idle"
         /\ handlers[Root][k].kind = "Handle"
         /\ \A j \in 1..(k - 1) : DelegatesFor(handlers[Root][j], Inbound))
        => /\ \A n \in 1..Len(trace) :
                  trace[n].pipeline = Root => trace[n].index <= k - 1
           /\ pc = "done" =>
                  /\ final = OkResult(handlers[Root][k].status)
                  /\ \E n \in 1..Len(trace) :
                         /\ trace[n].ev = "exit" /\ At(trace[n], Root, k - 1)
                         /\ trace[n].res = final

C3_Witness ==
    /\ pc = "done"
    /\ handlers[Root] = <<HandleNext(FALSE), Handle("Ok"),
                          Handle("InternalServerError")>>
    /\ final = OkResult("Ok")

\* the frames entered and not yet left after the first n events
RECURSIVE Open(_)
Open(n) ==
    IF n = 0 THEN <<>>
    ELSE LET e == trace[n]
             o == Open(n - 1)
         IN  IF e.ev = "enter" THEN Append(o, <<e.pipeline, e.index>>)
             ELSE IF e.ev = "exit" THEN SubSeq(o, 1, Len(o) - 1)
             ELSE o

\* C4: onion ordering.  A middleware returns only after everything entered
\* behind it has returned, Pipeline::handle returns what the middleware at
\* index 0 returned, and a wrapper that overwrites the status of the
\* delegated response decides the final status.
C4_OnionOrder ==
    /\ \A n \in 1..Len(trace) :
           trace[n].ev = "exit" =>
               /\ Open(n - 1) # <<>>
               /\ Open(n - 1)[Len(Open(n - 1))]
                      = <<trace[n].pipeline, trace[n].index>>
    /\ (pc = "done" /\ handlers[Root] # <<>>) =>
           /\ Open(Len(trace)) = <<>>
           /\ trace[Len(trace)].ev = "exit"
           /\ At(trace[Len(trace)], Root, 0)
           /\ final = trace[Len(trace)].res
    /\ (/\ pc = "done"
        /\ handlers[Root] # <<>>
        /\ handlers[Root][1] = HandleNext(TRUE)
        /\ trace[Len(trace) - 1].res.tag = "Ok")
           => final = OkResult("InternalServerError")

\* tests/handle.rs test_handle_next: the wrapper turns Ok into
\* InternalServerError
C4_Witness ==
    /\ pc = "done"
    /\ handlers[Root] = <<HandleNext(TRUE), Handle("Ok")>>
    /\ final = OkResult("InternalServerError")
    /\ Len(trace) = 4

\* the event that records what the Fork of event n decided
Decision(n) ==
    CHOOSE k \in 1..n :
        /\ trace[k].ev \in {"match", "nomatch"}
        /\ At(trace[k], trace[n].pipeline, trace[n].index)

\* C5: a Fork whose handler matches dispatches to its sub pipeline from
\* index 0 and returns that result; nothing of the outer pipeline behind the
\* Fork is entered.
C5_ForkTaken ==
    /\ \A j \in 1..(Len(stack) - 1) :
           stack[j].branch = "sub" =>
               At(stack[j + 1], HandlerOf(stack[j]).sub, 0)
    /\ \A k \in 1..Len(trace) :
           trace[k].ev = "match" =>
               /\ k < Len(trace) =>
                      /\ IsInvoke(trace[k + 1])
                      /\ At(trace[k + 1], HandlerOf(trace[k]).sub, 0)
               /\ \A m \in 1..Len(trace) :
                      trace[m].pipeline = trace[k].pipeline
                          => trace[m].index <= trace[k].index
    /\ \A n \in 1..Len(trace) :
           (/\ trace[n].ev = "exit"
            /\ HandlerOf(trace[n]).kind = "Fork"
            /\ trace[Decision(n)].ev = "match")
               => /\ At(trace[n - 1], HandlerOf(trace[n]).sub, 0)
                  /\ trace[n].res = trace[n - 1].res

\* tests/fork.rs test_fork_when, the HEAD request
C5_Witness ==
    /\ pc = "done"
    /\ req.method = "Head"
    /\ handlers[Root] = <<Fork(2, "ForkOnFn", <<>>), Handle("InternalServerError")>>
    /\ handlers[2] = <<Handle("Ok")>>
    /\ final = OkResult("Ok")

\* C6: a Fork whose handler does not match invokes the outer continuation
\* once, enters nothing of its sub pipeline and returns the continuation's
\* result as it is.
C6_ForkNotTaken ==
    /\ \A j \in 1..(Len(stack) - 1) :
           (stack[j].branch = "next" /\ HandlerOf(stack[j]).kind = "Fork") =>
               At(stack[j + 1], stack[j].pipeline, stack[j].index + 1)
    /\ \A k \in 1..Len(trace) :
           trace[k].ev = "nomatch" =>
               /\ \A m \in 1..Len(trace) :
                      trace[m].pipeline # HandlerOf(trace[k]).sub
               /\ Cardinality({m \in 1..Len(trace) :
                      /\ IsInvoke(trace[m])
                      /\ At(trace[m], trace[k].pipeline, trace[k].index + 1)})
                      = IF k < Len(trace) THEN 1 ELSE 0
               /\ k < Len(trace) =>
                      /\ IsInvoke(trace[k + 1])
                      /\ At(trace[k + 1], trace[k].pipeline, trace[k].index + 1)
    /\ \A n \in 1..Len(trace) :
           (/\ trace[n].ev = "exit"
            /\ HandlerOf(trace[n]).kind = "Fork"
            /\ trace[Decision(n)].ev = "nomatch")
               => /\ At(trace[n - 1], trace[n].pipeline, trace[n].index + 1)
                  /\ trace[n].res = trace[n - 1].res

\* tests/fork.rs test_fork_when, the GET request
C6_Witness ==
    /\ pc = "done"
    /\ req.method = "Get"
    /\ handlers[Root] = <<Fork(2, "ForkOnFn", <<>>), Handle("InternalServerError")>>
    /\ handlers[2] = <<Handle("Ok")>>
    /\ final = OkResult("InternalServerError")

IsPathFork(e) == HandlerOf(e).kind = "Fork" /\ HandlerOf(e).handler = "ForkOnPath"
\* a Fork's decision event follows its enter event, which holds the request
\* as it arrived
Arrived(k) == trace[k - 1].req

\* C7: slice_starts_with(input, prefix) is true exactly when the prefix is
\* no longer than the input and equals it position by position, and this is
\* the test ForkOnPath::should_fork applies to the request's path segments.
C7_PrefixMatch ==
    \A k \in 1..Len(trace) :
        (trace[k].ev \in {"match", "nomatch"} /\ IsPathFork(trace[k])) =>
            LET input == Arrived(k).path
                prefix == HandlerOf(trace[k]).segments
            IN  (trace[k].ev = "match") <=>
                    /\ Len(prefix) <= Len(input)
                    /\ \A i \in 1..Len(prefix) : input[i] = prefix[i]

\* the prefix /a/a is longer than the path /a that it agrees with
C7_Witness ==
    \E k \in 1..Len(trace) :
        /\ trace[k].ev = "nomatch"
        /\ IsPathFork(trace[k])
        /\ HandlerOf(trace[k]).segments = <<<<"a">>, <<"a">>>>
        /\ Arrived(k).path = <<<<"a">>>>

\* C8: in the sub pipeline of a PathFork with prefix P that matched a
\* request with path R, every middleware sees the path R without its first
\* Len(P) segments (the root path, which Url::path() gives as one empty
\* segment, when nothing remains) and the OriginalUrl slot holding R.  Read
\* for the Forks that the request reaches with the slot still absent.
C8_StripsPrefix ==
    \A k \in 1..Len(trace) :
        (/\ trace[k].ev = "match"
         /\ IsPathFork(trace[k])
         /\ Arrived(k).original = <<>>) =>
            LET R == Arrived(k).path
                rest == Skip(R, Len(HandlerOf(trace[k]).segments))
            IN  \A m \in 1..Len(trace) :
                    (IsInvoke(trace[m])
                        /\ trace[m].pipeline = HandlerOf(trace[k]).sub) =>
                        /\ trace[m].req.path
                               = IF rest = <<>> THEN <<<<>>>> ELSE rest
                        /\ trace[m].req.original = <<R>>

\* the first PathFork match of the trace, 0 when there is none
FirstPathMatch ==
    LET S == {k \in 1..Len(trace) : trace[k].ev = "match" /\ IsPathFork(trace[k])}
    IN  IF S = {} THEN 0 ELSE CHOOSE k \in S : \A j \in S : k <= j

\* C9: the OriginalUrl slot is set by the first PathFork that matches, to
\* the path the request had then, and no later match changes it.
C9_FirstWins ==
    /\ \A k \in 1..Len(trace) :
           IF FirstPathMatch = 0 \/ k < FirstPathMatch
           THEN trace[k].req.original = <<>>
           ELSE trace[k].req.original = <<Arrived(FirstPathMatch).path>>
    /\ pc # "idle" =>
           req.original = IF FirstPathMatch = 0 THEN <<>>
                          ELSE <<Arrived(FirstPathMatch).path>>

\* two nested PathForks matched and stripped /a/a; the slot still holds it
C9_Witness ==
    /\ pc = "done"
    /\ Cardinality({k \in 1..Len(trace) :
           trace[k].ev = "match" /\ IsPathFork(trace[k])}) = 2
    /\ trace[1].req.path = <<<<"a">>, <<"a">>, <<"a">>>>
    /\ req.path = <<<<"a">>>>
    /\ req.original = <<trace[1].req.path>>

AllSlashes(s) == \A i \in 1..Len(s) : s[i] = "/"

\* C10: parse_path answers NoLeadingSlash for a string that does not start
\* with '/' and PathEmpty for one that starts with '/' and has no non-empty
\* segment; Fork::when_path then fails when it is called, no Fork comes of
\* it, and the error never shows while a request is dispatched.
C10_ConstructionError ==
    /\ pathArg # <<>> =>
           LET s == pathArg[1]
           IN  /\ ~StartsWithSlash(s) =>
                      ParsePath(s) = ParseErr("NoLeadingSlash")
               /\ (StartsWithSlash(s) /\ AllSlashes(s)) =>
                      ParsePath(s) = ParseErr("PathEmpty")
               /\ (phase = "build" /\ (~StartsWithSlash(s) \/ AllSlashes(s))) =>
                      ENABLED WhenPathPanic /\ ~ENABLED WhenPathBuild
               /\ phase = "panicked" =>
                      parseErr = IF StartsWithSlash(s) THEN "PathEmpty"
                                 ELSE "NoLeadingSlash"
    /\ phase = "panicked" => pathArg # <<>> /\ pc = "idle" /\ stack = <<>>
    /\ pc # "idle" => parseErr = "none" /\ pathArg = <<>> /\ phase = "serve"
    /\ \A p \in 1..Len(handlers) : \A i \in 1..Len(handlers[p]) :
           handlers[p][i].handler = "ForkOnPath" =>
               /\ handlers[p][i].segments # <<>>
               /\ \A j \in 1..Len(handlers[p][i].segments) :
                      handlers[p][i].segments[j] # <<>>
    /\ \A b \in 1..Len(building) :
           building[b].handler = "ForkOnPath" => building[b].segments # <<>>

\* Fork::when_path("//", ..) inside a builder panicked with PathEmpty
C10_Witness ==
    /\ phase = "panicked"
    /\ parseErr = "PathEmpty"
    /\ pathArg = <<<<"/", "/">>>>
    /\ building # <<>>

\* ---------------------------------------------------------------------- C11
\* where the maximal runs of characters other than '/' start in s
RunStarts(s) ==
    {i \in 1..Len(s) : s[i] # "/" /\ (i = 1 \/ s[i - 1] = "/")}
\* where the run that starts at i ends
RunEnd(s, i) ==
    CHOOSE j \in i..Len(s) :
        /\ \A k \in i..j : s[k] # "/"
        /\ j = Len(s) \/ s[j + 1] = "/"
\* the runs that start at the positions S, leftmost first
RECURSIVE RunsFrom(_, _)
RunsFrom(s, S) ==
    IF S = {} THEN <<>>
    ELSE LET i == CHOOSE m \in S : \A n \in S : m <= n
         IN  <<SubSeq(s, i, RunEnd(s, i))>> \o RunsFrom(s, S \ {i})
Runs(s) == RunsFrom(s, RunStarts(s))
\* s with one more '/' after position i
DupSlash(s, i) == SubSeq(s, 1, i) \o <<"/">> \o SubSeq(s, i + 1, Len(s))

\* C11: for a path specification that starts with '/' and has a character
\* other than '/', parse_path returns Ok with exactly the non-empty
\* '/'-separated pieces, in order: the list is not empty, no segment is
\* empty, and doubling any '/' or appending one gives the same list.
C11_ParseOk ==
    [][(pathArg # <<>> /\ StartsWithSlash(pathArg[1])
            /\ RunStarts(pathArg[1]) # {})
        => LET s == pathArg[1]
               segments == Runs(s)
           IN  /\ phase' = "build"
               /\ parseErr' = "none"
               /\ building' = Append(building,
                      [pipeline |-> Len(handlers) + 1, handler |-> "ForkOnPath",
                       segments |-> segments])
               /\ segments # <<>>
               /\ \A j \in 1..Len(segments) :
                      /\ segments[j] # <<>>
                      /\ \A k \in 1..Len(segments[j]) : segments[j][k] # "/"
               /\ ParsePath(s \o <<"/">>) = ParseOk(segments)
               /\ \A i \in 1..Len(s) :
                      s[i] = "/" => ParsePath(DupSlash(s, i)) = ParseOk(segments)
      ]_vars

\* when_path parsed a specification into the segments a, b
C11_Witness ==
    /\ phase = "build"
    /\ pathArg = <<>>
    /\ Len(building) = 1
    /\ building[1].handler = "ForkOnPath"
    /\ building[1].segments = <<<<"a">>, <<"b">>>>

\* ---------------------------------------------------------------------- C12
\* the invocations that answered without delegating
Terminals ==
    {k \in 1..Len(trace) :
        trace[k].ev = "enter" /\ HandlerOf(trace[k]).kind = "Handle"}
\* the invoke_handler calls that found no middleware at their index
Exhausted == {k \in 1..Len(trace) : trace[k].ev = "nohandler"}
\* every middleware entered so far returns the delegated result as it is
NoneWraps ==
    \A k \in 1..Len(trace) :
        trace[k].ev = "enter" => ~HandlerOf(trace[k]).wrap

\* C12 as stated: a finished dispatch either had exactly one terminating
\* invocation, or none and its result is NoHandler.
C12_OneTerminalOrNoHandler ==
    pc = "done" =>
        \/ Cardinality(Terminals) = 1 /\ Exhausted = {}
        \/ Terminals = {} /\ final = NoHandler

\* C12, amended: a dispatch has at most one terminating invocation or
\* exhausted invoke_handler call, nothing is entered after it, and a
\* finished dispatch has exactly one of the two; the exhausted call returns
\* NoHandler, and the terminal result or NoHandler is what Pipeline::handle
\* returns when every entered middleware returns the delegated result as is.
C12_OneTerminalOrExhausted ==
    /\ Cardinality(Terminals) + Cardinality(Exhausted) <= 1
    /\ \A k \in Terminals \cup Exhausted :
           \A n \in (k + 1)..Len(trace) : ~IsInvoke(trace[n])
    /\ pc \in {"ret", "done"} =>
           Cardinality(Terminals) + Cardinality(Exhausted) = 1
    /\ \A k \in Exhausted : trace[k].res = NoHandler
    /\ (pc = "done" /\ NoneWraps) =>
           /\ \A k \in Exhausted : final = NoHandler
           /\ \A k \in Terminals :
                  /\ final = OkResult(HandlerOf(trace[k]).status)
                  /\ trace[k + 1].ev = "exit" /\ trace[k + 1].res = final

\* no middleware answered and the dispatch did not return NoHandler: the
\* HandleNext closure unwrapped the Err it got from its continuation
C12_Witness ==
    /\ pc = "done"
    /\ handlers[Root] = <<HandleNext(TRUE)>>
    /\ Terminals = {}
    /\ Cardinality(Exhausted) = 1
    /\ final = Panic

\* ---------------------------------------------------------------------- C13
\* the events that carry a result: a middleware returned, or invoke_handler
\* found nothing at its index
HasResult(e) == e.ev \in {"exit", "nohandler"}

\* C13: invoke_handler returns what the middleware returned, a Fork returns
\* what its sub pipeline (match) or its continuation (no match) returned,
\* and so does a HandleNext that returns next.process(req): a result, the
\* NoHandler failure of an exhausted chain included, reaches the caller of
\* Pipeline::handle unchanged when every entered middleware returns the
\* delegated result as is, and nothing is entered again after it.
C13_ResultVerbatim ==
    /\ (pc = "ret" /\ trace # <<>>) =>
           /\ HasResult(trace[Len(trace)])
           /\ ret = trace[Len(trace)].res
    /\ pc = "done" => final = trace[Len(trace)].res
    /\ \A k \in 2..Len(trace) :
           (trace[k].ev = "exit" /\ trace[k - 1].ev # "enter"
                /\ (HandlerOf(trace[k]).kind = "Fork"
                        \/ Delegates(HandlerOf(trace[k]))))
           => /\ HasResult(trace[k - 1])
              /\ trace[k].res = trace[k - 1].res
    /\ \A k \in 1..Len(trace) :
           (HasResult(trace[k]) /\ NoneWraps)
           => /\ \A n \in (k + 1)..Len(trace) :
                     trace[n].ev = "exit" /\ trace[n].res = trace[k].res
              /\ pc = "ret" => ret = trace[k].res
              /\ pc = "done" => final = trace[k].res

\* the sub pipeline of a matching Fork ran out of middleware, and its
\* NoHandler came back through the Fork and the HandleNext before it
C13_Witness ==
    /\ pc = "done"
    /\ Len(handlers[Root]) = 2
    /\ handlers[Root][1] = HandleNext(FALSE)
    /\ handlers[Root][2].kind = "Fork"
    /\ \E k \in Exhausted :
           /\ trace[k].pipeline = handlers[Root][2].sub
           /\ trace[k].index = 1
    /\ final = NoHandler

\* ---------------------------------------------------------------------- C14
\* the units that answer themselves: a Handle, a Handler, a Pipeline
IsTerminalUnit(m) == m.kind \in {"Handle", "Handler", "Pipeline"}

\* C14: a Handle and a Handler added as middleware return their function's
\* result without calling the continuation; a Pipeline added as middleware
\* runs its own chain from index 0 and returns that chain's result, the
\* NoHandler of its exhaustion included; nothing registered after such a
\* unit in the same chain is ever entered.
C14_TerminalAdapters ==
    \A k \in 1..Len(trace) :
        (trace[k].ev = "enter" /\ IsTerminalUnit(HandlerOf(trace[k]))) =>
            LET m == HandlerOf(trace[k])
            IN  /\ \A n \in 1..Len(trace) :
                       trace[n].pipeline = trace[k].pipeline
                           => trace[n].index <= trace[k].index
                /\ m.kind \in {"Handle", "Handler"} =>
                       /\ trace[k + 1].ev = "exit"
                       /\ At(trace[k + 1], trace[k].pipeline, trace[k].index)
                       /\ trace[k + 1].res = OkResult(m.status)
                /\ (m.kind = "Pipeline" /\ k < Len(trace)) =>
                       /\ IsInvoke(trace[k + 1])
                       /\ At(trace[k + 1], m.sub, 0)
                /\ \A n \in (k + 1)..Len(trace) :
                       (/\ m.kind = "Pipeline"
                        /\ trace[n].ev = "exit"
                        /\ At(trace[n], trace[k].pipeline, trace[k].index))
                       => /\ trace[n].res = trace[n - 1].res
                          /\ (trace[n - 1].ev = "nohandler"
                                 /\ trace[n - 1].pipeline = m.sub)
                             => trace[n].res = NoHandler

\* an inner pipeline whose only middleware delegates ran out: the outer
\* pipeline answers NoHandler although a Handle is registered after it
C14_Witness ==
    /\ pc = "done"
    /\ Len(handlers[Root]) = 2
    /\ handlers[Root][1].kind = "Pipeline"
    /\ handlers[Root][2].kind = "Handle"
    /\ handlers[handlers[Root][1].sub] = <<HandleNext(FALSE)>>
    /\ final = NoHandler

\* ---------------------------------------------------------------------- C15
\* the middleware a traversal entered, in order
EnteredBy(t) ==
    LET es == SelectSeq(t.trace, LAMBDA e : e.ev = "enter")
    IN  [k \in 1..Len(es) |-> <<es[k].pipeline, es[k].index>>]

\* the traversal t, once it returned, entered the middleware and returned
\* the result that handle(req) gives for its request when run alone
AsAlone(t) ==
    t.pc = "done" =>
        LET alone == Alone(Root, HandleIndex, t.trace[1].req)
        IN  /\ EnteredBy(t) = alone.entered
            /\ t.final = alone.res

\* C15: however two traversals of one pipeline interleave, each enters the
\* same middleware in the same order and returns the same result as the
\* same request handled alone, and no step taken while requests are served
\* changes the handlers of the pipeline or of a sub pipeline.
C15_Interleaving ==
    [][/\ phase = "serve" => handlers' = handlers
       /\ AsAlone(Traversal)'
       /\ AsAlone(other)'
      ]_vars

\* both traversals returned, each interrupted by the other, for different
\* requests that take different branches of a Fork
C15_Witness ==
    /\ pc = "done"
    /\ other.pc = "done"
    /\ trace[1].req # other.trace[1].req
    /\ final # other.final
    /\ handlers[Root][1].kind = "Fork"
    /\ EnteredBy(Traversal) # EnteredBy(other)

\* ---------------------------------------------------------------------- C16
\* the Forks that exist: <<p, i>> with handlers[p][i] a Fork
Forks ==
    {pi \in (1..Len(handlers)) \X (1..MaxMiddleware) :
        /\ pi[2] <= Len(handlers[pi[1]])
        /\ handlers[pi[1]][pi[2]].kind = "Fork"}
\* the pipelines whose pipeline_builder is running
BeingBuilt == {building[j].pipeline : j \in 1..Len(building)}
\* every pipeline but the root is the sub pipeline of exactly one Fork, or
\* is being built by exactly one constructor call, never both
OneBuilderEach ==
    \A p \in 2..Len(handlers) :
        Cardinality({pi \in Forks : handlers[pi[1]][pi[2]].sub = p})
            + Cardinality({j \in 1..Len(building) : building[j].pipeline = p})
        = 1

\* C16: Fork::when and Fork::when_path call the builder once, on a new empty
\* Pipeline, before the Fork exists: a pipeline is created empty and only
\* as a builder starts, what is added while a builder runs is appended to
\* that builder's pipeline, in the order added, and once the Fork exists
\* (which is when it is added to the enclosing pipeline) its sub pipeline
\* never changes.
C16_BuilderRunsOnce ==
    [][/\ Len(handlers') # Len(handlers) =>
              /\ Len(handlers') = Len(handlers) + 1
              /\ handlers'[Len(handlers')] = <<>>
              /\ Len(building') = Len(building) + 1
              /\ building'[Len(building')].pipeline = Len(handlers')
              /\ SubSeq(building', 1, Len(building)) = building
       /\ \A p \in 1..Len(handlers) :
              handlers'[p] # handlers[p] =>
                  /\ Len(handlers'[p]) = Len(handlers[p]) + 1
                  /\ SubSeq(handlers'[p], 1, Len(handlers[p])) = handlers[p]
                  /\ \A q \in 1..Len(handlers) : q # p => handlers'[q] = handlers[q]
                  /\ LET m == handlers'[p][Len(handlers'[p])]
                         inner == IF building = <<>> THEN Root
                                  ELSE building[Len(building)].pipeline
                         outer == IF Len(building) <= 1 THEN Root
                                  ELSE building[Len(building) - 1].pipeline
                     IN  IF m.kind = "Fork"
                         THEN /\ building # <<>>
                              /\ building' = SubSeq(building, 1, Len(building) - 1)
                              /\ m.sub = inner
                              /\ p = outer
                         ELSE /\ building' = building
                              /\ p = inner
       /\ \A pi \in Forks :
              handlers'[handlers[pi[1]][pi[2]].sub]
                  = handlers[handlers[pi[1]][pi[2]].sub]
       /\ OneBuilderEach'
      ]_vars

\* a Fork whose builder added a HandleNext and then a Handle
C16_Witness ==
    /\ building = <<>>
    /\ Len(handlers) = 2
    /\ Len(handlers[Root]) = 1
    /\ handlers[Root][1].kind = "Fork"
    /\ handlers[Root][1].sub = 2
    /\ handlers[2] = <<HandleNext(FALSE), Handle("Ok")>>

\* ---------------------------------------------------------------------- C17
\* C17: in a pipeline of n middleware every invoke_handler call has an
\* index of at most n, n only for the call that finds the pipeline
\* exhausted; the continuation handed to the middleware at index i < n is
\* bound to i + 1, within 1..n; and the indexes of the calls made in one
\* pipeline increase strictly.
C17_IndexInRange ==
    /\ \A j \in 1..Len(stack) :
           /\ stack[j].index \in 0..Len(handlers[stack[j].pipeline])
           /\ j < Len(stack) => stack[j].index < Len(handlers[stack[j].pipeline])
           /\ (j < Len(stack) /\ stack[j].branch = "next") =>
                  /\ stack[j + 1].pipeline = stack[j].pipeline
                  /\ stack[j + 1].index = stack[j].index + 1
           /\ \A i \in 1..(j - 1) :
                  stack[i].pipeline = stack[j].pipeline
                      => stack[i].index < stack[j].index
    /\ \A k \in 1..Len(trace) :
           LET n == Len(handlers[trace[k].pipeline])
           IN  /\ trace[k].ev = "nohandler" => trace[k].index = n
               /\ trace[k].ev = "enter" =>
                      /\ trace[k].index < n
                      /\ NextIndex(trace[k].index) \in 1..n
               /\ IsInvoke(trace[k]) =>
                      \A i \in 1..(k - 1) :
                          (IsInvoke(trace[i])
                              /\ trace[i].pipeline = trace[k].pipeline)
                          => trace[i].index < trace[k].index

\* three delegating middleware: the calls had indexes 0, 1, 2 and 3 = n
C17_Witness ==
    /\ pc = "done"
    /\ handlers[Root] = <<HandleNext(FALSE), HandleNext(FALSE), HandleNext(FALSE)>>
    /\ \E k \in Exhausted : At(trace[k], Root, 3)

\* ---------------------------------------------------------------------- C18
\* C18: every dispatch that Pipeline::handle starts returns, and the
\* invoke_handler calls in progress are never more than the middleware of
\* the top-level pipeline and of the sub pipelines, plus one for the call
\* that finds a pipeline exhausted.
C18_Terminates ==
    /\ [](Len(stack) <= Added(Len(handlers)) + 1)
    /\ (pc = "call") ~> (pc = "done")

\* a dispatch returned after its calls were nested as deep as the bound: a
\* HandleNext, a matching Fork, the HandleNext of its sub pipeline, and the
\* call that found the sub pipeline exhausted
C18_Witness ==
    /\ pc = "done"
    /\ Added(Len(handlers)) = 3
    /\ Cardinality({k \in 1..Len(trace) : trace[k].ev = "enter"}) = 3
    /\ \E k \in Exhausted : trace[k].pipeline # Root

\* ---------------------------------------------------------------------- C19
\* the events that record the entry of a Fork
ForkEntries ==
    {k \in 1..Len(trace) :
        trace[k].ev = "enter" /\ HandlerOf(trace[k]).kind = "Fork"}
\* the ForkHandler's test, written out for the request r
Matches(m, r) ==
    IF m.handler = "ForkOnPath"
    THEN /\ Len(m.segments) <= Len(r.path)
         /\ \A i \in 1..Len(m.segments) : r.path[i] = m.segments[i]
    ELSE r.method = "Head"

\* C19: a Fork decides once, by its handler's test of the request as it
\* arrived; when the test fails the request is not rewritten; when it holds
\* the request is rewritten once (a ForkOnPath drops its segments from the
\* path and fills an absent OriginalUrl slot, a ForkOnFn changes nothing),
\* and the first call into the sub pipeline already sees the rewritten
\* request.
C19_PredicateThenRewrite ==
    \A k \in ForkEntries :
        LET m == HandlerOf(trace[k])
            arrived == trace[k].req
            d == trace[k + 1]
        IN  /\ d.ev \in {"match", "nomatch"}
            /\ At(d, trace[k].pipeline, trace[k].index)
            /\ Cardinality({n \in 1..Len(trace) :
                    /\ trace[n].ev \in {"match", "nomatch"}
                    /\ At(trace[n], trace[k].pipeline, trace[k].index)}) = 1
            /\ d.ev = "match" <=> Matches(m, arrived)
            /\ d.ev = "nomatch" => d.req = arrived
            /\ d.ev = "match" =>
                   /\ d.req.method = arrived.method
                   /\ d.req.path =
                          IF m.handler = "ForkOnPath"
                          THEN UrlPath(SetPath(Join(
                                   Skip(arrived.path, Len(m.segments)))))
                          ELSE arrived.path
                   /\ d.req.original =
                          IF m.handler = "ForkOnPath" /\ arrived.original = <<>>
                          THEN <<arrived.path>>
                          ELSE arrived.original
                   /\ k + 2 <= Len(trace) =>
                          /\ IsInvoke(trace[k + 2])
                          /\ At(trace[k + 2], m.sub, 0)
                          /\ trace[k + 2].req = d.req

\* a ForkOnPath inside a matching ForkOnPath with the same segments: it
\* tests the rewritten path, does not match, and leaves the request alone
C19_Witness ==
    /\ pc = "done"
    /\ \E k \in ForkEntries :
           /\ trace[k].pipeline # Root
           /\ IsPathFork(trace[k])
           /\ trace[k].req.original # <<>>
           /\ SliceStartsWith(trace[k].req.original[1],
                              HandlerOf(trace[k]).segments)
           /\ trace[k + 1].ev = "nomatch"
           /\ trace[k + 1].req = trace[k].req

\* ---------------------------------------------------------------------- C20
\* C20: a ForkOnPath that does not match hands its continuation the request
\* as it arrived, path and OriginalUrl slot untouched (an absent slot stays
\* absent), and a ForkOnFn hands on the request as it arrived on both
\* branches.
C20_RequestUntouched ==
    \A k \in ForkEntries :
        LET m == HandlerOf(trace[k])
            arrived == trace[k].req
            d == trace[k + 1]
        IN  (d.ev = "nomatch" \/ m.handler = "ForkOnFn") =>
                /\ d.req.path = arrived.path
                /\ d.req.original = arrived.original
                /\ d.req = arrived
                /\ k + 2 <= Len(trace) =>
                       /\ IsInvoke(trace[k + 2])
                       /\ trace[k + 2].req = arrived
                       /\ d.ev = "nomatch" =>
                              At(trace[k + 2], trace[k].pipeline,
                                 trace[k].index + 1)

\* a ForkOnPath that did not match, then a matching ForkOnFn whose sub
\* pipeline answered: both handed on the request without an OriginalUrl
C20_Witness ==
    /\ pc = "done"
    /\ Len(handlers[Root]) = 2
    /\ handlers[Root][1].handler = "ForkOnPath"
    /\ handlers[Root][2].handler = "ForkOnFn"
    /\ Len(trace) >= 5
    /\ trace[2].ev = "nomatch"
    /\ trace[4].ev = "match"
    /\ trace[5].ev = "enter"
    /\ trace[5].req = trace[1].req
    /\ trace[5].req.original = <<>>
    /\ final.tag = "Ok"

\* ---------------------------------------------------------------------- C21
\* input starts with the segments of first followed by those of second
StartsWithBoth(input, first, second) ==
    /\ Len(first) + Len(second) <= Len(input)
    /\ \A i \in 1..Len(first) : input[i] = first[i]
    /\ \A i \in 1..Len(second) : input[Len(first) + i] = second[i]

\* C21: a PathFork with prefix P2 entered in the sub pipeline of a PathFork
\* with prefix P1, the first to match a request with inbound path R, matches
\* exactly when R starts with P1 followed by P2, and its own sub pipeline is
\* then handed R without the segments of P1 and P2 (the root path when
\* nothing remains), the OriginalUrl slot still holding R.
C21_NestedPrefix ==
    \A j \in 1..Len(trace) : \A k \in (j + 1)..Len(trace) :
        (/\ trace[j].ev = "match" /\ IsPathFork(trace[j])
         /\ Arrived(j).original = <<>>
         /\ trace[k].ev \in {"match", "nomatch"} /\ IsPathFork(trace[k])
         /\ trace[k].pipeline = HandlerOf(trace[j]).sub
         /\ \A n \in (j + 1)..(k - 1) : trace[n].ev # "match") =>
            LET R == Arrived(j).path
                P1 == HandlerOf(trace[j]).segments
                P2 == HandlerOf(trace[k]).segments
                rest == Skip(R, Len(P1) + Len(P2))
            IN  /\ trace[k].ev = "match" <=> StartsWithBoth(R, P1, P2)
                /\ trace[k].ev = "match" =>
                       /\ trace[k].req.path
                              = IF rest = <<>> THEN <<<<>>>> ELSE rest
                       /\ trace[k].req.original = <<R>>

\* ---------------------------------------------------------------------- C22
\* C22: in the revision src/src/middleware.rs a Fork made by when_path
\* calls its sub pipeline only when the request path starts with its
\* segments: a request path with fewer segments than the prefix is handed
\* to next.process, index + 1 of the same pipeline.
C22_ShorterPathNotForked ==
    \A k \in 2..Len(trace) :
        (/\ trace[k].ev \in {"match", "nomatch"}
         /\ IsPathFork(trace[k])
         /\ Len(Arrived(k).path) < Len(HandlerOf(trace[k]).segments)) =>
            /\ trace[k].ev = "nomatch"
            /\ k < Len(trace) =>
                   /\ IsInvoke(trace[k + 1])
                   /\ At(trace[k + 1], trace[k].pipeline, trace[k].index + 1)

\* ---------------------------------------------------------------------- C23
\* the retry events of the trace
Retries == {k \in 1..Len(trace) : trace[k].ev = "retry"}
\* the entry of the middleware that the event at k belongs to: the last
\* entry of its position before k
EntryOf(k) ==
    LET S == {n \in 1..(k - 1) :
                 /\ trace[n].ev = "enter"
                 /\ At(trace[n], trace[k].pipeline, trace[k].index)}
    IN  CHOOSE n \in S : \A m \in S : m <= n
\* the return of the middleware that the event at k belongs to: the first
\* exit of its position after k, 0 when it has not returned
ExitOf(k) ==
    LET S == {n \in (k + 1)..Len(trace) :
                 /\ trace[n].ev = "exit"
                 /\ At(trace[n], trace[k].pipeline, trace[k].index)}
    IN  IF S = {} THEN 0 ELSE CHOOSE n \in S : \A m \in S : n <= m
\* what happened from event a to event b: calls, decisions and results
Shape(a, b) ==
    [n \in 1..(b - a + 1) |->
        <<trace[a + n - 1].ev, trace[a + n - 1].pipeline,
          trace[a + n - 1].index, trace[a + n - 1].res>>]

\* C23: both next.process calls of a retrying middleware at index i enter
\* the pipeline at index i + 1, the index the continuation is bound to: the
\* second call does not start further on; when the request is the same at
\* both calls, the second call enters the same middleware in the same
\* order and gets the same result as the first.
C23_RetryReenters ==
    \A k \in Retries :
        LET first == EntryOf(k)
            last == ExitOf(k)
            bound == trace[k].index + 1
        IN  /\ IsInvoke(trace[first + 1])
            /\ At(trace[first + 1], trace[k].pipeline, bound)
            /\ k < Len(trace) =>
                   /\ IsInvoke(trace[k + 1])
                   /\ At(trace[k + 1], trace[k].pipeline, bound)
            /\ last # 0 =>
                   /\ Cardinality({n \in first..last :
                          /\ IsInvoke(trace[n])
                          /\ At(trace[n], trace[k].pipeline, bound)}) = 2
                   /\ trace[first].req = trace[k].req =>
                          /\ Shape(first + 1, k - 1) = Shape(k + 1, last - 1)
                          /\ trace[last].res = trace[k].res

\* a Retry before a HandleNext and a Handle: each of the two was entered
\* twice, and the second answer is the result
C23_Witness ==
    /\ pc = "done"
    /\ handlers[Root] = <<Retry, HandleNext(FALSE), Handle("Ok")>>
    /\ \A i \in 1..2 :
           Cardinality({n \in 1..Len(trace) :
               trace[n].ev = "enter" /\ At(trace[n], Root, i)}) = 2
    /\ final = OkResult("Ok")

\* ---------------------------------------------------------------------- C24
\* the pipelines whose handlers a step changes
Changed == {p \in 1..Len(handlers) : handlers'[p] # handlers[p]}

\* C24: a step that changes the handlers of a pipeline is an add: it puts
\* one middleware behind those already there, which stay as they were and
\* in their order, and changes no other pipeline; no step of a dispatch,
\* from the call of handle to the host taking the response, changes any
\* handlers.
C24_AddAppends ==
    [][/\ Len(handlers') >= Len(handlers)
       /\ SubSeq(handlers', 1, Len(handlers)) # handlers =>
              /\ Cardinality(Changed) = 1
              /\ \A p \in Changed :
                     /\ Len(handlers'[p]) = Len(handlers[p]) + 1
                     /\ \A i \in 1..Len(handlers[p]) :
                            handlers'[p][i] = handlers[p][i]
              /\ Len(handlers') = Len(handlers)
              /\ pc = "idle" /\ pc' = "idle"
       /\ (pc # "idle" \/ pc' # "idle") => handlers' = handlers
      ]_vars

\* three different middleware in the order added, after a request was
\* answered
C24_Witness ==
    /\ pc = "done"
    /\ Len(handlers) = 1
    /\ handlers[Root] = <<HandleNext(FALSE), HandleNext(TRUE), Handle("Ok")>>
    /\ final = OkResult("InternalServerError")

\* ---------------------------------------------------------------------- C25
\* the match events of Forks whose sub pipeline is empty or holds only
\* middleware that return next.process(req)
DelegatingMatches ==
    {k \in 1..Len(trace) :
        /\ trace[k].ev = "match"
        /\ \A i \in 1..Len(handlers[HandlerOf(trace[k]).sub]) :
               Delegates(handlers[HandlerOf(trace[k]).sub][i])}

DecisionOf(x) ==
    LET S == {n \in 1..(x - 1) :
                 /\ trace[n].ev \in {"match", "nomatch"}
                 /\ At(trace[n], trace[x].pipeline, trace[x].index)}
    IN  CHOOSE n \in S : \A m \in S : m <= n
\* the returns of path Forks that had matched
MatchedPathForkExits ==
    {x \in 1..Len(trace) :
        /\ trace[x].ev = "exit"
        /\ IsPathFork(trace[x])
        /\ trace[DecisionOf(x)].ev = "match"}
\* no path Fork matched from event a to event b
NoRewrite(a, b) ==
    \A n \in a..b : ~(trace[n].ev = "match" /\ IsPathFork(trace[n]))

\* C26: when a path Fork that matched returns, the request is as its sub
\* pipeline left it: the path without the Fork's segments (when no Fork
\* inside rewrote it further) and the OriginalUrl slot filled; the slot
\* keeps that value and the path stays until another path Fork matches,
\* so a middleware before the Fork sees the stripped path when its
\* next.process returns, and a path Fork entered again by a second
\* next.process tests the stripped path.
C26_RewriteKept ==
    /\ \A x \in MatchedPathForkExits :
           LET d == DecisionOf(x)
               m == HandlerOf(trace[x])
               arrived == trace[d - 1].req
           IN  /\ trace[x].req = trace[x - 1].req
               /\ NoRewrite(d + 1, x) =>
                      /\ trace[x].req.path =
                             UrlPath(SetPath(Join(
                                 Skip(arrived.path, Len(m.segments)))))
                      /\ trace[x].req.original =
                             IF arrived.original = <<>> THEN <<arrived.path>>
                             ELSE arrived.original
               /\ trace[x].req.original # <<>>
               /\ \A n \in (x + 1)..Len(trace) :
                      /\ trace[n].req.original = trace[x].req.original
                      /\ NoRewrite(x + 1, n) => trace[n].req = trace[x].req
               /\ (pc \in {"ret", "done"} /\ NoRewrite(x + 1, Len(trace)))
                      => req = trace[x].req
    /\ \A k \in 1..Len(trace) :
           (trace[k].ev = "enter" /\ IsPathFork(trace[k])) =>
               (trace[k + 1].ev = "match"
                   <=> Matches(HandlerOf(trace[k]), trace[k].req))

\* a Retry before a path Fork on /a that holds a Handle, and a request for
\* /a: the first call matches and is answered; the second call presents
\* the root path, the Fork does not match, and the result is NoHandler
C26_Witness ==
    /\ pc = "done"
    /\ Len(handlers[Root]) = 2
    /\ handlers[Root][1] = Retry
    /\ IsPathFork([pipeline |-> Root, index |-> 1])
    /\ trace[1].req.path = <<<<"a">>>>
    /\ \E k \in Retries :
           /\ trace[k].res.tag = "Ok"
           /\ trace[k].req.path = <<<<>>>>
           /\ trace[k].req.original = <<<<<<"a">>>>>>
           /\ trace[k + 2].ev = "nomatch"
    /\ final = NoHandler

\* ---------------------------------------------------------------------- C27
\* a path specification that parse_path rejects
Invalid(s) == ~StartsWithSlash(s) \/ AllSlashes(s)

\* C27: Fork::when_path called with an invalid path specification fails
\* before anything of the builder happens: the step that follows the call
\* is the failure, it creates no pipeline, starts no builder and adds
\* nothing to any pipeline, and no step follows it.
C27_ValidatesBeforeBuilder ==
    [][/\ (pathArg # <<>> /\ Invalid(pathArg[1])) =>
              /\ phase = "build"
              /\ phase' = "panicked"
              /\ parseErr' \in {"NoLeadingSlash", "PathEmpty"}
              /\ handlers' = handlers
              /\ building' = building
              /\ pc' = "idle"
       /\ phase' = "panicked" =>
              /\ pathArg # <<>>
              /\ Invalid(pathArg[1])
      ]_vars

\* Fork::when_path("a", ..) called by the builder of an enclosing Fork
\* after one add: the enclosing Fork's pipeline is the last one created
C27_Witness ==
    /\ phase = "panicked"
    /\ parseErr = "NoLeadingSlash"
    /\ pathArg = <<<<"a">>>>
    /\ Len(building) = 1
    /\ Len(handlers) = 2
    /\ handlers[2] = <<HandleNext(FALSE)>>
    /\ handlers[Root] = <<>>

====
